---- MODULE Spec2Model ----
\* A model of app/models.py: the User, Blog and Comment entities, their derived
\* fields, and the three generate_fake seeders running against a shared store.
EXTENDS Integers, Sequences, FiniteSets, TLC

\* ---------------------------------------------------------------- bounds
\* Longest raw markdown text (in tokens) assigned to Blog.summary / Blog.content.
MaxTextLen == 2

\* Largest count passed to a generate_fake call.
MaxCount == 2

\* Calls start only while the tables they fill stay within these sizes.
MaxUsers == 3
MaxBlogs == 2
MaxComments == 2

VARIABLES
    users,       \* the users table: rows in insertion order, ids 1, 2, ...
    blogs,       \* the blogs table
    comments,    \* the comments table
    call,        \* per caller: the call it is in or has ended, with that call's locals
    post,        \* one Blog object: its summary, summary_html, content, content_html
    postDirect,  \* history: the *_html columns assigned directly since their raw column was last assigned
    user,        \* one User object: email, username, password_hash, admin, avatar_hash
    userHist,    \* history of that object: what its constructor was given, what was assigned since
    result       \* outcome of the last method call: its name, arguments, return value or exception

storeVars == <<users, blogs, comments, call>>
blogVars == <<post, postDirect>>
userVars == <<user, userHist, result>>

vars == <<storeVars, blogVars, userVars>>

\* ================================================================ strings
\* A Python str is a sequence of characters; None in a str column is the
\* one-element sequence below, which no str over the model's alphabets equals.
None == << "None" >>

RECURSIVE SeqsUpTo(_, _)
SeqsUpTo(S, n) ==
    IF n = 0 THEN { <<>> }
    ELSE LET shorter == SeqsUpTo(S, n - 1)
         IN  shorter \cup { Append(s, x) : s \in shorter, x \in S }

\* A method call's outcome.
NoResult == [op |-> "", args |-> <<>>, exc |-> "", ret |-> <<>>]
Return(op, args, v) == [op |-> op, args |-> args, exc |-> "", ret |-> v]
Raise(op, args, e) == [op |-> op, args |-> args, exc |-> e, ret |-> <<>>]

\* ================================================================ Blog
\* Text is a sequence of tokens [kind, v]: a plain word ("text"), a markdown
\* emphasis span **v** ("strong"), an HTML tag ("open" / "close", v the tag
\* name) or a bare URL ("url").
Tok(k, x) == [kind |-> k, v |-> x]

\* Python's None in a text column.
NoneText == << Tok("none", "None") >>

RawTokens == { Tok("text", "bold"), Tok("strong", "bold"),
               Tok("open", "script"), Tok("url", "http://x.com") }

RawTexts == SeqsUpTo(RawTokens, MaxTextLen)

\* Values a caller may store straight into an *_html column.
HtmlValues == { << Tok("open", "script"), Tok("text", "bold"), Tok("close", "script") >> }

allowed_tags == { "a", "abbr", "acronym", "b", "blockquote", "code",
                  "em", "i", "li", "ol", "pre", "strong", "ul",
                  "h1", "h2", "h3", "p" }

\* markdown(value, output_format='html'): an emphasis span becomes a strong
\* element, raw inline HTML and URLs pass through, and a non-empty text is
\* wrapped in one paragraph.
MarkdownInline(t) ==
    IF t.kind = "strong"
    THEN << Tok("open", "strong"), Tok("text", t.v), Tok("close", "strong") >>
    ELSE << t >>

RECURSIVE MarkdownInlines(_)
MarkdownInlines(s) ==
    IF s = <<>> THEN <<>> ELSE MarkdownInline(Head(s)) \o MarkdownInlines(Tail(s))

markdown(value) ==
    IF value = <<>> THEN <<>>
    ELSE << Tok("open", "p") >> \o MarkdownInlines(value) \o << Tok("close", "p") >>

\* bleach.clean(html, tags=tags, strip=True): a tag outside the allow-list is
\* removed, its content kept.
IsTag(t) == t.kind \in { "open", "close" }

bleach_clean(html, tags) == SelectSeq(html, LAMBDA t : IsTag(t) => t.v \in tags)

\* bleach.linkify(html): a bare URL becomes an anchor around its text.
LinkifyToken(t) ==
    IF t.kind = "url"
    THEN << Tok("open", "a"), Tok("text", t.v), Tok("close", "a") >>
    ELSE << t >>

RECURSIVE bleach_linkify(_)
bleach_linkify(html) ==
    IF html = <<>> THEN <<>> ELSE LinkifyToken(Head(html)) \o bleach_linkify(Tail(html))

\* The 'set' listener of Blog.summary: runs before the new value is stored.
on_changed_summary_unsanitized(target, value) ==
    [target EXCEPT !.summary_html = bleach_linkify(markdown(value))]

on_changed_summary(target, value) ==
    [target EXCEPT !.summary_html =
        bleach_linkify(bleach_clean(markdown(value), allowed_tags))]

\* The 'set' listener of Blog.content.
on_changed_content(target, value) ==
    [target EXCEPT !.content_html =
        bleach_linkify(bleach_clean(markdown(value), allowed_tags))]

\* Blog(): every column None.
NewBlog == [ summary |-> NoneText, summary_html |-> NoneText,
             content |-> NoneText, content_html |-> NoneText ]

InitBlog ==
    /\ post = NewBlog
    /\ postDirect = {}

\* b.summary = value (also Blog(summary=value), which is a setattr): the
\* listener fires, then the column takes the value.
SetSummary ==
    \E value \in RawTexts :
        /\ post' = [on_changed_summary(post, value) EXCEPT !.summary = value]
        /\ postDirect' = postDirect \ { "summary_html" }
        /\ UNCHANGED <<storeVars, userVars>>

SetContent ==
    \E value \in RawTexts :
        /\ post' = [on_changed_content(post, value) EXCEPT !.content = value]
        /\ postDirect' = postDirect \ { "content_html" }
        /\ UNCHANGED <<storeVars, userVars>>

\* b.summary_html = h: an ordinary column, no listener attached.
SetSummaryHtml ==
    \E h \in HtmlValues :
        /\ post' = [post EXCEPT !.summary_html = h]
        /\ postDirect' = postDirect \cup { "summary_html" }
        /\ UNCHANGED <<storeVars, userVars>>

SetContentHtml ==
    \E h \in HtmlValues :
        /\ post' = [post EXCEPT !.content_html = h]
        /\ postDirect' = postDirect \cup { "content_html" }
        /\ UNCHANGED <<storeVars, userVars>>

\* ================================================================ User
\* Characters of the e-mail addresses, with one upper-case letter.
Emails == { << "a", "@", "x" >>, << "A", "@", "x" >>, << "b", "@", "x" >> }

Usernames == { << "u" >> }

\* Plaintext passwords; "$" is the separator werkzeug uses inside a hash string.
Plaintexts == { << "a" >>, << "a", "$" >>, << "$", "a" >> }

\* Salts gen_salt may draw.
Salts == { << "s" >>, << "t" >> }

\* avatar_hash values a caller may pass or assign: a digest of its own choosing.
GivenHashes == { << "h" >> }

\* hashlib.md5(s.encode('utf-8')).hexdigest(): a digest that is a one-to-one
\* image of its input (no collisions among the model's strings).
md5_hexdigest(s) == << "md5", ":" >> \o s

\* werkzeug's _hash_internal(method, salt, password): the salted digest, again
\* one-to-one in (salt, password); a salt holds no "|".
hash_internal(method, salt, password) == << "H", "(" >> \o salt \o << "|" >> \o password \o << ")" >>

HashMethod == << "pbkdf2:sha256" >>

\* generate_password_hash(password): "method$salt$digest" under a fresh salt.
generate_password_hash(password, salt) ==
    HashMethod \o << "$" >> \o salt \o << "$" >> \o hash_internal(HashMethod, salt, password)

\* s.count(c)
Count(s, c) == Cardinality({ i \in DOMAIN s : s[i] = c })

\* Index of the first c in s at or after position from (0 when there is none).
IndexFrom(s, c, from) ==
    LET hits == { i \in DOMAIN s : i >= from /\ s[i] = c }
    IN  IF hits = {} THEN 0 ELSE CHOOSE i \in hits : \A j \in hits : i <= j

\* check_password_hash(pwhash, password): split at the first two "$", hash the
\* candidate under the stored method and salt, compare the digests.
check_password_hash(pwhash, password) ==
    IF Count(pwhash, "$") < 2 THEN FALSE
    ELSE LET i1 == IndexFrom(pwhash, "$", 1)
             i2 == IndexFrom(pwhash, "$", i1 + 1)
             method == SubSeq(pwhash, 1, i1 - 1)
             salt == SubSeq(pwhash, i1 + 1, i2 - 1)
             hashval == SubSeq(pwhash, i2 + 1, Len(pwhash))
         IN  hash_internal(method, salt, password) = hashval

\* The password setter.
password_setter_plaintext(self, password, salt) ==
    [self EXCEPT !.password_hash = password]

password_setter(self, password, salt) ==
    [self EXCEPT !.password_hash = generate_password_hash(password, salt)]

\* verify_password: check_password_hash on None raises.
verify_password(self, password) ==
    IF self.password_hash = None
    THEN Raise("verify_password", << password >>, "AttributeError")
    ELSE Return("verify_password", << password >>,
                check_password_hash(self.password_hash, password))

\* The declarative constructor: every keyword is a setattr (None: not given).
BaseInit(kw, salt) ==
    LET columns == [ email |-> kw.email, username |-> kw.username,
                     password_hash |-> None, admin |-> kw.admin,
                     avatar_hash |-> kw.avatar_hash ]
    IN  IF kw.password = None THEN columns
        ELSE password_setter(columns, kw.password, salt)

\* User.__init__
User__init__no_hash(kw, salt) == BaseInit(kw, salt)

User__init__(kw, salt) ==
    LET self == BaseInit(kw, salt)
    IN  IF self.email # None /\ self.avatar_hash = None
        THEN [self EXCEPT !.avatar_hash = md5_hexdigest(self.email)]
        ELSE self

\* str(n) for n >= 0, as str.format renders an int.
DigitChars == << "0", "1", "2", "3", "4", "5", "6", "7", "8", "9" >>

RECURSIVE str(_)
str(n) ==
    IF n < 10 THEN << DigitChars[n + 1] >>
    ELSE str(n \div 10) \o << DigitChars[(n % 10) + 1] >>

Sizes == { 100, 80 }
Defaults == { << "identicon" >>, << "mm" >> }
Ratings == { << "g" >> }

SecureBase == << "https://secure.gravatar.com/avatar" >>
PlainBase == << "http://www.gravatar.com/avatar" >>

\* '{url}/{hash}?s={size}&d={default}&r={rating}'.format(...)
FormatUrl(url, hash, size, default, rating) ==
    url \o << "/" >> \o hash \o << "?s=" >> \o str(size)
        \o << "&d=" >> \o default \o << "&r=" >> \o rating

\* Python truthiness of a str column: None and '' are false.
Truthy(s) == s # None /\ s # <<>>

\* gravatar: with no usable cached hash the right operand of `or` is evaluated,
\* and hashlib has no attribute mp5.
gravatar(self, size, default, rating, is_secure) ==
    LET args == << str(size), default, rating >>
        url == IF is_secure THEN SecureBase ELSE PlainBase
    IN  IF Truthy(self.avatar_hash)
        THEN Return("gravatar", args, FormatUrl(url, self.avatar_hash, size, default, rating))
        ELSE Raise("gravatar", args, "AttributeError")

\* No keyword given (admin reads as False until the column default applies).
NoKw == [ email |-> None, username |-> None, password |-> None,
          admin |-> FALSE, avatar_hash |-> None ]

NewHist == [ given_hash |-> FALSE, touched |-> FALSE, others |-> FALSE, password |-> None ]

\* User()
InitUser ==
    /\ user = User__init__(NoKw, << "s" >>)
    /\ userHist = NewHist
    /\ result = NoResult

\* u = User(**kw), with any combination of keywords.
Construct ==
    \E e \in Emails \cup { None }, n \in Usernames \cup { None },
       p \in Plaintexts \cup { None }, a \in BOOLEAN,
       h \in GivenHashes \cup { None }, salt \in Salts :
        LET kw == [ email |-> e, username |-> n, password |-> p,
                    admin |-> a, avatar_hash |-> h ]
        IN  /\ user' = User__init__(kw, salt)
            /\ userHist' = [ given_hash |-> (h # None), touched |-> FALSE,
                             others |-> FALSE, password |-> p ]
            /\ result' = NoResult
            /\ UNCHANGED <<storeVars, blogVars>>
        /\ UNCHANGED <<storeVars, blogVars>>

\* u.email = e: a plain column.
SetEmail ==
    \E e \in Emails \cup { None } :
        /\ user' = [user EXCEPT !.email = e]
        /\ userHist' = [userHist EXCEPT !.touched = TRUE]
        /\ result' = NoResult
        /\ UNCHANGED <<storeVars, blogVars>>

\* u.avatar_hash = h: a plain column.
SetAvatarHash ==
    \E h \in GivenHashes \cup { None } :
        /\ user' = [user EXCEPT !.avatar_hash = h]
        /\ userHist' = [userHist EXCEPT !.touched = TRUE]
        /\ result' = NoResult
        /\ UNCHANGED <<storeVars, blogVars>>

\* u.username = n, u.admin = a: the other columns.
SetUsername ==
    \E n \in Usernames :
        /\ user' = [user EXCEPT !.username = n]
        /\ userHist' = [userHist EXCEPT !.others = TRUE]
        /\ result' = NoResult
        /\ UNCHANGED <<storeVars, blogVars>>

SetAdmin ==
    \E a \in BOOLEAN :
        /\ user' = [user EXCEPT !.admin = a]
        /\ userHist' = [userHist EXCEPT !.others = TRUE]
        /\ result' = NoResult
        /\ UNCHANGED <<storeVars, blogVars>>

\* u.password = p
SetPassword ==
    \E p \in Plaintexts, salt \in Salts :
        /\ user' = password_setter(user, p, salt)
        /\ userHist' = [userHist EXCEPT !.others = TRUE, !.password = p]
        /\ result' = NoResult
        /\ UNCHANGED <<storeVars, blogVars>>

\* u.verify_password(p)
VerifyPassword ==
    \E p \in Plaintexts :
        /\ result' = verify_password(user, p)
        /\ UNCHANGED <<user, userHist, storeVars, blogVars>>

\* u.gravatar(size, default, rating) inside a request that is secure or not.
Gravatar ==
    \E size \in Sizes, default \in Defaults, rating \in Ratings, is_secure \in BOOLEAN :
        /\ result' = gravatar(user, size, default, rating, is_secure)
        /\ UNCHANGED <<user, userHist, storeVars, blogVars>>

\* ================================================================ the store
\* Callers sharing the store, each with its own session.
Procs == { 1, 2 }

\* NULL in an integer column; None for a row that a query did not find.
NullId == 0

StoreEmails == { << "a", "@", "x" >>, << "b", "@", "x" >> }
StoreUsernames == { << "u" >>, << "v" >> }

\* What forgery_py.lorem_ipsum yields for a password and for a text.
FakeWord == << "a" >>
FakeText == << Tok("text", "bold") >>

Idle == [ op |-> "", status |-> "idle", count |-> 0, i |-> 0, collisions |-> 0,
          inserted |-> {}, seed |-> NullId, user_count |-> 0, blog_count |-> 0,
          exc |-> "" ]

Started(op, count) == [Idle EXCEPT !.op = op, !.status = "running", !.count = count]

CanCall(p) == call[p].status # "running"

\* Rows that calls in progress on a table may still insert.
Outstanding(op) ==
    LET left(q) == IF call[q].op = op /\ call[q].status = "running"
                   THEN call[q].count - call[q].i ELSE 0
    IN  left(1) + left(2)

InitStore ==
    /\ users = <<>>
    /\ blogs = <<>>
    /\ comments = <<>>
    /\ call = [p \in Procs |-> Idle]

\* unique=True on users.email and users.username: NULLs never collide.
UniqueViolation_email_only(table, row) ==
    \E k \in DOMAIN table : row.email # None /\ table[k].email = row.email

UniqueViolation(table, row) ==
    \E k \in DOMAIN table :
        \/ row.email # None /\ table[k].email = row.email
        \/ row.username # None /\ table[k].username = row.username

\* db.session.add(u); db.session.commit(), when the INSERT succeeds: the row
\* gets the next id.
Insert(table, obj) == Append(table, [ id |-> Len(table) + 1, row |-> obj ])

\* ---------------------------------------------------------------- User.generate_fake
CallUserGenerateFake(p) ==
    \E count \in 0 .. MaxCount :
        /\ CanCall(p)
        /\ Len(users) + Outstanding("User.generate_fake") + count <= MaxUsers
        /\ call' = [call EXCEPT ![p] = Started("User.generate_fake", count)]
        /\ UNCHANGED <<users, blogs, comments, blogVars, userVars>>

\* except IntegrityError: db.session.rollback(), and the loop goes on.
on_integrity_error_escapes(c) ==
    [c EXCEPT !.status = "raised", !.exc = "IntegrityError"]

on_integrity_error(c) ==
    [c EXCEPT !.i = @ + 1, !.collisions = @ + 1]

\* One iteration of the loop: build the user, add it, commit.
UserFakeStep(p) ==
    /\ call[p].op = "User.generate_fake" /\ call[p].status = "running"
    /\ call[p].i < call[p].count
    /\ \E e \in StoreEmails, n \in StoreUsernames :
        LET u == User__init__([ email |-> e, username |-> n, password |-> FakeWord,
                                admin |-> FALSE, avatar_hash |-> None ], << "s" >>)
        IN  IF UniqueViolation([k \in DOMAIN users |-> users[k].row], u)
            THEN /\ call' = [call EXCEPT ![p] = on_integrity_error(call[p])]
                 /\ UNCHANGED users
            ELSE /\ users' = Insert(users, u)
                 /\ call' = [call EXCEPT ![p].i = @ + 1,
                                         ![p].inserted = @ \cup { Len(users) + 1 }]
    /\ UNCHANGED <<blogs, comments, blogVars, userVars>>

\* range(count) is exhausted: the call returns.
FakeReturn(p) ==
    /\ call[p].status = "running"
    /\ call[p].i = call[p].count
    /\ call' = [call EXCEPT ![p].status = "returned"]
    /\ UNCHANGED <<users, blogs, comments, blogVars, userVars>>

\* Any other caller: u = User(...); db.session.add(u); db.session.commit(),
\* the IntegrityError left to propagate.
CreateUser(p) ==
    /\ CanCall(p)
    /\ Len(users) + Outstanding("User.generate_fake") + 1 <= MaxUsers
    /\ \E e \in StoreEmails \cup { None }, n \in StoreUsernames \cup { None } :
        LET u == User__init__([ email |-> e, username |-> n, password |-> None,
                                admin |-> FALSE, avatar_hash |-> None ], << "s" >>)
            c == [Idle EXCEPT !.op = "User.create", !.count = 1, !.i = 1]
        IN  IF UniqueViolation([k \in DOMAIN users |-> users[k].row], u)
            THEN /\ call' = [call EXCEPT ![p] = [c EXCEPT !.status = "raised",
                                                         !.exc = "IntegrityError",
                                                         !.collisions = 1]]
                 /\ UNCHANGED users
            ELSE /\ users' = Insert(users, u)
                 /\ call' = [call EXCEPT ![p] = [c EXCEPT !.status = "returned",
                                                         !.inserted = { Len(users) + 1 }]]
    /\ UNCHANGED <<blogs, comments, blogVars, userVars>>

\* ---------------------------------------------------------------- Blog.generate_fake
\* User.query.filter_by(id=1).first(): the id of the row found, or None.
QueryUserById(n) == IF \E k \in DOMAIN users : users[k].id = n THEN n ELSE NullId

CallBlogGenerateFake(p) ==
    \E count \in 0 .. MaxCount :
        /\ CanCall(p)
        /\ Len(blogs) + Outstanding("Blog.generate_fake") + count <= MaxBlogs
        /\ call' = [call EXCEPT ![p] =
                        [Started("Blog.generate_fake", count) EXCEPT !.seed = QueryUserById(1)]]
        /\ UNCHANGED <<users, blogs, comments, blogVars, userVars>>

\* Blog(name=..., summary=..., content=..., create_at=..., author=u): each
\* keyword is a setattr; author=None is an ordinary value of a many-to-one
\* relationship and leaves author_id NULL.
Blog__init__(u) ==
    LET b == [on_changed_content(on_changed_summary(NewBlog, FakeText), FakeText)
                EXCEPT !.summary = FakeText, !.content = FakeText]
    IN  [ exc |-> "",
          obj |-> [ summary |-> b.summary, summary_html |-> b.summary_html,
                    content |-> b.content, content_html |-> b.content_html,
                    author_id |-> u ] ]

\* One iteration: try: build, add, commit; except AttributeError: pass.
BlogFakeStep(p) ==
    /\ call[p].op = "Blog.generate_fake" /\ call[p].status = "running"
    /\ call[p].i < call[p].count
    /\ LET r == Blog__init__(call[p].seed)
       IN  IF r.exc = "AttributeError"
           THEN /\ call' = [call EXCEPT ![p].i = @ + 1]
                /\ UNCHANGED blogs
           ELSE /\ blogs' = Insert(blogs, r.obj)
                /\ call' = [call EXCEPT ![p].i = @ + 1,
                                        ![p].inserted = @ \cup { Len(blogs) + 1 }]
    /\ UNCHANGED <<users, comments, blogVars, userVars>>

\* ---------------------------------------------------------------- Comment.generate_fake
\* user_count and blog_count are read once, before the loop.
CallCommentGenerateFake(p) ==
    \E count \in 0 .. MaxCount :
        /\ CanCall(p)
        /\ Len(comments) + Outstanding("Comment.generate_fake") + count <= MaxComments
        /\ call' = [call EXCEPT ![p] =
                        [Started("Comment.generate_fake", count)
                            EXCEPT !.user_count = Len(users), !.blog_count = Len(blogs)]]
        /\ UNCHANGED <<users, blogs, comments, blogVars, userVars>>

\* random.randint(a, b): the values it may return; none when a > b, where it
\* raises ValueError.
randint(a, b) == a .. b

\* Comment(..., author=u, blog=b). The users-side relationship (backref author)
\* joins on the comments column whose foreign key is users.id, which is
\* blog_id; the blogs-side one (backref blog) on the column whose foreign key is
\* blogs.id, which is author_id.
Comment__init__(u, b) ==
    [ author |-> u, blog |-> b, disabled |-> FALSE, blog_id |-> u, author_id |-> b ]

\* One iteration: draw the two offsets, build the comment, add it, commit.
CommentFakeStep(p) ==
    /\ call[p].op = "Comment.generate_fake" /\ call[p].status = "running"
    /\ call[p].i < call[p].count
    /\ IF randint(0, call[p].user_count - 1) = {} \/ randint(0, call[p].blog_count - 1) = {}
       THEN /\ call' = [call EXCEPT ![p].status = "raised", ![p].exc = "ValueError"]
            /\ UNCHANGED comments
       ELSE \E uo \in randint(0, call[p].user_count - 1),
               bo \in randint(0, call[p].blog_count - 1) :
                /\ comments' = Insert(comments,
                                      Comment__init__(users[uo + 1].id, blogs[bo + 1].id))
                /\ call' = [call EXCEPT ![p].i = @ + 1,
                                        ![p].inserted = @ \cup { Len(comments) + 1 }]
    /\ UNCHANGED <<users, blogs, blogVars, userVars>>

\* ================================================================ specifications
Init == InitBlog /\ InitUser /\ InitStore

NextBlog == SetSummary \/ SetContent \/ SetSummaryHtml \/ SetContentHtml

SpecBlog == Init /\ [][NextBlog]_vars

NextUser ==
    \/ Construct \/ SetEmail \/ SetAvatarHash \/ SetUsername \/ SetAdmin
    \/ SetPassword \/ VerifyPassword \/ Gravatar

SpecUser == Init /\ [][NextUser]_vars

\* Concurrent callers creating accounts.
NextAccounts ==
    \E p \in Procs :
        CallUserGenerateFake(p) \/ UserFakeStep(p) \/ FakeReturn(p) \/ CreateUser(p)

SpecAccounts == Init /\ [][NextAccounts]_vars

\* One caller seeding users, posts and comments in any order.
NextSeed ==
    \/ CallUserGenerateFake(1) \/ UserFakeStep(1)
    \/ CallBlogGenerateFake(1) \/ BlogFakeStep(1)
    \/ CallCommentGenerateFake(1) \/ CommentFakeStep(1)
    \/ FakeReturn(1)

SpecSeed == Init /\ [][NextSeed]_vars

\* ---------------------------------------------------------------- C1
\* derive = linkify(sanitize(markdown(raw))), sanitize keeping exactly the
\* allow-listed tags.
Derive(raw) == bleach_linkify(bleach_clean(markdown(raw), allowed_tags))

\* C1 (as stated): in every state of a Blog, summary_html is the derivation of
\* the current summary and content_html the derivation of the current content;
\* nothing can make an *_html column differ from it.
C1_HtmlAlwaysDerived ==
    /\ post.summary # NoneText => post.summary_html = Derive(post.summary)
    /\ post.content # NoneText => post.content_html = Derive(post.content)

\* C1 (amended): an *_html column is the derivation of its raw column unless it
\* was itself assigned after the raw column's last assignment.
C1_HtmlDerivedUnlessAssigned ==
    /\ (post.summary # NoneText /\ "summary_html" \notin postDirect)
            => post.summary_html = Derive(post.summary)
    /\ (post.content # NoneText /\ "content_html" \notin postDirect)
            => post.content_html = Derive(post.content)

\* A summary holding a script tag and an emphasis span has been assigned, and
\* the stored HTML is its sanitized rendering.
C1_Witness ==
    /\ post.summary = << Tok("strong", "bold"), Tok("open", "script") >>
    /\ post.summary_html = << Tok("open", "p"), Tok("open", "strong"), Tok("text", "bold"),
                              Tok("close", "strong"), Tok("close", "p") >>
    /\ post.content # NoneText
    /\ postDirect = {}

\* ---------------------------------------------------------------- C4
\* C4 (as stated): in every state of a User, avatar_hash is set exactly when
\* email is not None.
C4_AvatarIffEmail == (user.avatar_hash # None) <=> (user.email # None)

\* C4 (amended): for a User built without an avatar_hash keyword, and as long
\* as neither email nor avatar_hash has been assigned since, avatar_hash is set
\* exactly when email is not None.
C4_AvatarIffEmailAtConstruction ==
    (~userHist.given_hash /\ ~userHist.touched)
        => ((user.avatar_hash # None) <=> (user.email # None))

\* A User built with an e-mail and no avatar_hash, another column updated since.
C4_Witness ==
    /\ user.email = << "b", "@", "x" >>
    /\ ~userHist.given_hash
    /\ ~userHist.touched /\ userHist.others
    /\ user.avatar_hash = md5_hexdigest(<< "b", "@", "x" >>)

\* ---------------------------------------------------------------- C5
\* The lower-case form of a string, character by character.
LowerChar(c) == IF c = "A" THEN "a" ELSE c
lower(s) == [i \in DOMAIN s |-> LowerChar(s[i])]

\* C5: a User built with an e-mail (and no avatar_hash keyword), whose email and
\* avatar_hash were not assigned since, holds the digest of the lower-cased
\* e-mail, whatever other columns were updated.
C5_AvatarIsHashOfLowercaseEmail ==
    (user.email # None /\ ~userHist.given_hash /\ ~userHist.touched)
        => user.avatar_hash = md5_hexdigest(lower(user.email))

\* ---------------------------------------------------------------- C6
\* C6: gravatar on a User with an e-mail returns base/fingerprint?s=..&d=..&r=..
\* with the cached fingerprint or, when none is cached, the digest of the
\* e-mail; it raises nothing.
C6_GravatarUrl ==
    (result.op = "gravatar" /\ user.email # None) =>
        /\ result.exc = ""
        /\ \E base \in { SecureBase, PlainBase } :
             result.ret =
                base \o << "/" >>
                     \o (IF user.avatar_hash # None THEN user.avatar_hash
                         ELSE md5_hexdigest(user.email))
                     \o << "?s=" >> \o result.args[1]
                     \o << "&d=" >> \o result.args[2]
                     \o << "&r=" >> \o result.args[3]

\* ---------------------------------------------------------------- C10
\* C10: after u.password = p, verify_password(q) returns q = p and raises
\* nothing, and password_hash is not p.
C10_VerifyAfterSet ==
    userHist.password # None =>
        /\ user.password_hash # userHist.password
        /\ result.op = "verify_password" =>
             /\ result.exc = ""
             /\ result.ret = (result.args[1] = userHist.password)

\* verify_password has just rejected a wrong plaintext that holds the separator.
C10_Witness ==
    /\ userHist.password = << "a", "$" >>
    /\ result.op = "verify_password"
    /\ result.args[1] = << "$", "a" >>
    /\ result.ret = FALSE

\* ---------------------------------------------------------------- C2
\* C2: a User.generate_fake(count) run never ends in an exception; each attempt
\* made so far either inserted a row or collided; every row it inserted is
\* still in the table; and when it returns it has made count attempts and
\* inserted count minus the number of collisions.
C2_GenerateFakeSkipsCollisions ==
    \A p \in Procs :
        call[p].op = "User.generate_fake" =>
            /\ call[p].status # "raised" /\ call[p].exc = ""
            /\ Cardinality(call[p].inserted) + call[p].collisions = call[p].i
            /\ \A id \in call[p].inserted : \E k \in DOMAIN users : users[k].id = id
            /\ call[p].status = "returned" =>
                 /\ call[p].i = call[p].count
                 /\ Cardinality(call[p].inserted) = call[p].count - call[p].collisions

\* A run of two attempts has returned with one collision and one row inserted.
C2_Witness ==
    \E p \in Procs :
        /\ call[p].op = "User.generate_fake" /\ call[p].status = "returned"
        /\ call[p].count = 2 /\ call[p].collisions = 1
        /\ Cardinality(call[p].inserted) = 1

\* ---------------------------------------------------------------- C3
\* C3: no two rows of the users table share an e-mail or a username (NULL is no
\* value), whatever the interleaving of the callers, and a commit that ends in
\* IntegrityError leaves the table as it was.
UniqueEmailAndUsername ==
    \A j, k \in DOMAIN users :
        j # k =>
            /\ users[j].row.email # None => users[j].row.email # users[k].row.email
            /\ users[j].row.username # None => users[j].row.username # users[k].row.username

FailedCommitPersistsNothing ==
    \A p \in Procs :
        (call'[p].collisions > call[p].collisions \/
         (call'[p].exc = "IntegrityError" /\ call[p] # call'[p]))
            => users' = users

C3_UniqueInStore == []UniqueEmailAndUsername /\ [][FailedCommitPersistsNothing]_vars

\* Two callers are inside generate_fake at once, both have attempted an insert,
\* one has collided, and the table holds two accounts.
C3_Witness ==
    /\ \A p \in Procs : call[p].op = "User.generate_fake" /\ call[p].i >= 1
    /\ \E p \in Procs : call[p].collisions >= 1
    /\ Len(users) = 2

\* ---------------------------------------------------------------- C7
\* C7: Blog.generate_fake called while no user has id 1 returns without an
\* exception and has inserted no post.
C7_NoSeedNoPosts ==
    \A p \in Procs :
        (call[p].op = "Blog.generate_fake" /\ call[p].seed = NullId
            /\ call[p].status \in { "returned", "raised" })
        => (call[p].status = "returned" /\ call[p].inserted = {})

\* ---------------------------------------------------------------- C8
\* C8: Comment.generate_fake(count >= 1) started on an empty users or blogs
\* table ends in PreconditionViolation and has inserted no comment.
C8_EmptyTablePrecondition ==
    \A p \in Procs :
        (call[p].op = "Comment.generate_fake" /\ call[p].count >= 1
            /\ (call[p].user_count = 0 \/ call[p].blog_count = 0)
            /\ call[p].status \in { "returned", "raised" })
        => (call[p].exc = "PreconditionViolation" /\ call[p].inserted = {})

\* ---------------------------------------------------------------- C9
\* C9: every row of the comments table stores in author_id the id of the user
\* it was created with and in blog_id the id of the post it was created with.
C9_CommentForeignKeys ==
    \A k \in DOMAIN comments :
        /\ comments[k].row.author_id = comments[k].row.author
        /\ comments[k].row.blog_id = comments[k].row.blog
====
